---- MODULE Spec2Model ----
(***************************************************************************)
(* Chat-completion executor of the gateway:                                *)
(*   gateway/src/executor/chat_completion/mod.rs, fn execute.              *)
(* One request is followed from its arrival to its result, together with   *)
(* the event channel created for it, the collector task spawned on the     *)
(* receiving end and the executor (streaming or batch) that runs the model *)
(* instance.                                                               *)
(***************************************************************************)
EXTENDS FiniteSets, Integers, Sequences, TLC

(***************************************************************************)
(* Bounds of the model.                                                    *)
(***************************************************************************)
\* messages (Option<ModelEvent>) the model instance hands to the channel
MaxEvents == 3
\* chat messages of a request
MaxMessages == 3
\* tool declarations of a request (specification SpecTools)
MaxTools == 3
\* items a stream produces
MaxChunks == 2
\* messages each of two concurrent requests hands to its channel (SpecTwo)
MaxEventsEach == 2
\* capacity of the channel; the source's 1000 (mod.rs:143) scaled down
Capacity == 2

(***************************************************************************)
(* Option<T>: None is the empty sequence, Some(x) the one-element one.     *)
(***************************************************************************)
None == <<>>
Some(x) == <<x>>
IsSome(o) == o # None
Unwrap(o) == o[1]

SeqsUpTo(S, n) == UNION {[1..k -> S] : k \in 0..n}

(***************************************************************************)
(* Model events.  The id is the position of the event in the model         *)
(* instance's emission order, so any two events of a run differ and a      *)
(* loss, a duplicate or a swap is visible.                                 *)
(***************************************************************************)
EventKinds == {"LlmStop", "ToolStart", "LlmFirstToken", "Other"}

ModelEvent(k, i) ==
    [kind |-> k, id |-> i, name |-> IF k = "ToolStart" THEN "lookup" ELSE ""]

\* what the LlmStop(e), ToolStart(e), LlmFirstToken(e) patterns bind
Payload(ev) == [id |-> ev.id, name |-> ev.name]

\* the values a sender can put on a channel of Option<ModelEvent>
ChannelMessages(i) == {None} \cup {Some(ModelEvent(k, i)) : k \in EventKinds}

(***************************************************************************)
(* The request and the catalogue.                                          *)
(***************************************************************************)
ToolDefs ==
    { [name |-> "lookup", description |-> "d1"],
      [name |-> "lookup", description |-> "d2"],
      [name |-> "search", description |-> "d1"],
      [name |-> "search", description |-> "d2"] }

\* request.tools: Option<Vec<ChatCompletionTool>>
ToolsChoices == {None} \cup {Some(s) : s \in SeqsUpTo(ToolDefs, MaxTools)}

\* the tool lists of the requests whose whole execution is followed
PipelineToolsChoices == {None, Some(<<[name |-> "lookup", description |-> "d1"]>>)}

\* a chat message either maps to an internal message or does not
MessageChoices == SeqsUpTo({"ok", "bad"}, MaxMessages)

\* request.stream: Option<bool>
StreamChoices == {None, Some(TRUE), Some(FALSE)}

ModelNames == {"openai/gpt-4", "unknown/model"}

AvailableModels ==
    [n \in {"openai/gpt-4"} |->
        [model |-> "openai/gpt-4",
         model_provider |-> "openai",
         inference_provider |->
            [provider |-> "openai", model_name |-> "gpt-4", endpoint |-> None]]]

\* handler::find_model_by_full_name: exact match on the full name
find_model_by_full_name(name, provided_models) ==
    IF name \in DOMAIN provided_models THEN Some(provided_models[name]) ELSE None

(***************************************************************************)
(* Tool descriptors and the tool-capability mapping (mod.rs:73-82,         *)
(* 111-122).                                                               *)
(***************************************************************************)
\* request.tools.as_ref().map_or(vec![], |tools| tools.iter().map(..).collect())
ModelTools(tools) ==
    IF tools = None
    THEN <<>>
    ELSE [i \in 1..Len(Unwrap(tools)) |->
            [name |-> Unwrap(tools)[i].name,
             description |-> Unwrap(tools)[i].description,
             passed_args |-> <<>>]]

GatewayTool(tool) == [def |-> tool]

\* a mutant of HashMapInsert: an existing key keeps its value
HashMapInsertKeepFirst(m, k, v) ==
    [x \in DOMAIN m \cup {k} |-> IF x \in DOMAIN m THEN m[x] ELSE v]

\* HashMap::insert: the value of an existing key is replaced
HashMapInsert(m, k, v) ==
    [x \in DOMAIN m \cup {k} |-> IF x = k THEN v ELSE m[x]]

\* Iterator::collect into a HashMap: the pairs are inserted in iteration order
RECURSIVE CollectHashMap(_, _)
CollectHashMap(m, pairs) ==
    IF pairs = <<>>
    THEN m
    ELSE CollectHashMap(HashMapInsert(m, Head(pairs)[1], Head(pairs)[2]), Tail(pairs))

\* request.tools.as_ref().map_or_else(HashMap::new, |tools| ... .collect())
ToolsMap(tools) ==
    IF tools = None
    THEN <<>>
    ELSE CollectHashMap(<<>>,
            [i \in 1..Len(Unwrap(tools)) |->
                <<Unwrap(tools)[i].name, GatewayTool(Unwrap(tools)[i])>>])

(***************************************************************************)
(* State.                                                                  *)
(***************************************************************************)
VARIABLES
    request,        \* the ChatCompletionRequest: model, stream, tools, messages
    pc,             \* position of execute
    result,         \* what the call has returned
    llm_model,      \* Option: the resolved model definition
    tools,          \* the descriptor list (ModelTools)
    tools_map,      \* the tool-capability mapping
    db_model,       \* Option: the Model metadata paired with every event
    definition,     \* Option: the CompletionModelDefinition
    messages,       \* the messages mapped so far
    rx,             \* receiving end: "none" (not created), "alive", "dropped"
    txCount,        \* live sending ends
    chan,           \* messages buffered in the channel
    discarded,      \* messages still buffered when the receiving end was dropped
    collector,      \* the collector task: "none", "recv", "process", "done"
    msg,            \* Option: the event the collector is processing
    stop_event,     \* Option: payload of the last LlmStop
    tool_calls,     \* Option: payloads of the ToolStart events
    ttft,           \* Option: what the collector recorded on the span
    handle,         \* Option: the value the JoinHandle yields
    pulled,         \* events the collector has pulled
    forwarded,      \* events the collector has forwarded
    sink,           \* what the callback sink has received
    emitted,        \* messages the model instance has handed out, in order
    sent,           \* messages whose send completed
    pending,        \* Option: the message of a send that has not completed
    executors,      \* executors invoked: subset of {"stream", "batch"}
    upstream,       \* outcome of the model invocation: "none", "ok", "failed"
    streamState,    \* "none", "open", "ended", "failed"
    items,          \* items the stream has produced
    sinkFlaky,      \* whether the callback sink is one whose deliveries can fail
    sinkFailed,     \* ids of the events whose delivery failed inside the sink
    multi,          \* two requests executing concurrently (specification SpecTwo)
    embed           \* the embeddings executor (specification SpecEmbed)

vars == <<request, pc, result, llm_model, tools, tools_map, db_model, definition,
          messages, rx, txCount, chan, discarded, collector, msg, stop_event,
          tool_calls, ttft, handle, pulled, forwarded, sink, emitted, sent,
          pending, executors, upstream, streamState, items, sinkFlaky, sinkFailed,
          multi, embed>>

planVars == <<llm_model, tools, tools_map, db_model, definition>>
channelVars == <<rx, txCount, chan, discarded>>
collectorVars == <<collector, msg, stop_event, tool_calls, ttft, handle, pulled,
                   forwarded>>
emitterVars == <<emitted, sent, pending, upstream>>
streamVars == <<streamState, items>>
\* what no step of the chat-completion executor changes
otherVars == <<sinkFlaky, multi, embed>>
\* the state of the one request followed step by step
chatVars == <<request, pc, result, planVars, messages, channelVars, collectorVars,
              sink, emitterVars, executors, streamVars, sinkFlaky, sinkFailed>>

(***************************************************************************)
(* Results of execute.                                                     *)
(***************************************************************************)
NoResult == [outer |-> "", side |-> "", inner |-> "", err |-> "", response |-> None]

\* Err(e): the ? operator returned early
ErrResult(e) ==
    [outer |-> "Err", side |-> "", inner |-> "", err |-> e, response |-> None]

\* Ok(Left(Ok(stream))) and Ok(Left(Err(e)))
LeftResult(e) ==
    [outer |-> "Ok", side |-> "Left", inner |-> IF e = "" THEN "Ok" ELSE "Err",
     err |-> e, response |-> None]

\* Ok(Right(Ok(response))) and Ok(Right(Err(e)))
RightResult(e, response) ==
    [outer |-> "Ok", side |-> "Right", inner |-> IF e = "" THEN "Ok" ELSE "Err",
     err |-> e, response |-> response]

(***************************************************************************)
(* The statements of execute, in source order.                             *)
(***************************************************************************)
\* a mutant of Steps: the channel and the collector come before the model instance
StepsChannelBeforeInit ==
    <<"tags", "resolve", "engine", "build", "channel", "spawn", "init", "map", "branch">>

\* a mutant of Steps: the channel and the collector come before the message loop
StepsChannelBeforeMap ==
    <<"tags", "resolve", "engine", "build", "init", "channel", "spawn", "map", "branch">>

\* a mutant of Steps: the branch comes before the channel and the collector
StepsBranchBeforeChannel ==
    <<"tags", "resolve", "engine", "build", "init", "map", "branch", "channel", "spawn">>

Steps ==
    <<"tags", "resolve", "engine", "build", "init", "map", "channel", "spawn", "branch">>

NextStep(p) == Steps[(CHOOSE i \in 1..Len(Steps) : Steps[i] = p) + 1]

\* a sending end goes out of scope
DropTx(n) == IF n > 0 THEN n - 1 ELSE 0

\* an early return through `?`: the locals of execute are dropped
Fail(e) ==
    /\ result' = ErrResult(e)
    /\ pc' = "done"
    /\ txCount' = DropTx(txCount)

\* a mutant of StreamFlag: an absent flag counts as true
StreamFlagDefaultTrue(req) == IF req.stream = None THEN TRUE ELSE Unwrap(req.stream)

\* request.stream.unwrap_or(false)
StreamFlag(req) == IF req.stream = None THEN FALSE ELSE Unwrap(req.stream)

\* a mutant of BranchTarget: the two arms are swapped
BranchTargetSwapped(req) == IF StreamFlag(req) THEN "batch" ELSE "stream"

\* if request.stream.unwrap_or(false) { stream_chunks } else { basic_executor::execute }
BranchTarget(req) == IF StreamFlag(req) THEN "stream" ELSE "batch"

(***************************************************************************)
(* Two calls of execute running concurrently, from the creation of their   *)
(* channels on (mod.rs:143-182 and the batch arm).  The callback sink is   *)
(* the one handler both calls were given.                                  *)
(***************************************************************************)
Requests == {1, 2}

\* the id of an event names the request whose model instance emitted it
EventId(r, i) == 10 * r + i
Origin(ev) == ev.id \div 10

\* the first request declares no tool, the second one
ToolsOf(r) ==
    IF r = 1 THEN None ELSE Some(<<[name |-> "lookup", description |-> "d1"]>>)

\* db_model of request r (mod.rs:84-96)
DbModelOf(r) ==
    [name |-> "gpt-4",
     provider_name |-> "openai",
     tools |-> ModelTools(ToolsOf(r)),
     model_type |-> "Completions"]

\* what the model instance of request r can put on its channel as i-th message
MessagesOf(r, i) ==
    {None} \cup {Some(ModelEvent(k, EventId(r, i))) : k \in {"ToolStart", "LlmStop"}}

\* a mutant of ChannelOf: one channel serves every call
ChannelShared(r) == 1

\* `let (tx, mut rx) = channel(1000)` is a statement of execute: a channel per call
ChannelOf(r) == r

MultiInit ==
    [chan      |-> [c \in Requests |-> <<>>],
     rx        |-> [c \in Requests |-> "none"],
     tx        |-> [r \in Requests |-> 0],
     sent      |-> [r \in Requests |-> <<>>],
     collector |-> [r \in Requests |-> "none"],
     msg       |-> [r \in Requests |-> None],
     pulled    |-> [r \in Requests |-> <<>>],
     sink      |-> <<>>]

(***************************************************************************)
(* The embeddings executor: src/executor/embeddings.rs,                    *)
(* fn handle_embeddings_invoke.                                            *)
(***************************************************************************)
\* the statements of handle_embeddings_invoke, in source order
EmbedSteps == <<"setup", "channel", "spawn", "new", "invoke">>

EmbedNextStep(p) ==
    LET i == CHOOSE j \in 1..Len(EmbedSteps) : EmbedSteps[j] = p IN
    IF i = Len(EmbedSteps) THEN "done" ELSE EmbedSteps[i + 1]

\* the Model built for every forwarded event (embeddings.rs:47-59)
EmbeddingModel(model_name) ==
    [name |-> model_name,
     provider_name |-> "openai",
     tools |-> ModelTools(None),
     model_type |-> "Embedding"]

\* a mutant of SendersAfterReturn: a clone of tx outlives the call
SendersAfterReturnLeaked(n) == IF n > 0 THEN 1 ELSE 0

\* tx and the clone moved into invoke are dropped when the function returns
SendersAfterReturn(n) == 0

EmbedInit ==
    [pc            |-> EmbedSteps[1],
     result        |-> "",
     request_model |-> "openai/text-embedding-3-small",
     model_name    |-> "",
     rx            |-> "none",
     tx            |-> 0,
     chan          |-> <<>>,
     emitted       |-> <<>>,
     collector     |-> "none",
     msg           |-> None,
     sink          |-> <<>>]

InitWith(toolChoices) ==
    /\ request \in [model : ModelNames, stream : StreamChoices,
                    tools : toolChoices, messages : MessageChoices]
    /\ pc = Steps[1]
    /\ result = NoResult
    /\ llm_model = None
    /\ tools = <<>>
    /\ tools_map = <<>>
    /\ db_model = None
    /\ definition = None
    /\ messages = <<>>
    /\ rx = "none"
    /\ txCount = 0
    /\ chan = <<>>
    /\ discarded = <<>>
    /\ collector = "none"
    /\ msg = None
    /\ stop_event = None
    /\ tool_calls = None
    /\ ttft = None
    /\ handle = None
    /\ pulled = <<>>
    /\ forwarded = <<>>
    /\ sink = <<>>
    /\ emitted = <<>>
    /\ sent = <<>>
    /\ pending = None
    /\ executors = {}
    /\ upstream = "none"
    /\ streamState = "none"
    /\ items = 0
    /\ sinkFailed = {}
    /\ multi = MultiInit
    /\ embed = EmbedInit

Init == InitWith(PipelineToolsChoices) /\ sinkFlaky = FALSE

InitTools ==
    /\ InitWith(ToolsChoices)
    /\ request.messages = <<>>
    /\ request.stream = None
    /\ sinkFlaky = FALSE

\* no step of the request has been taken; the state the specifications of the
\* concurrent requests and of the embeddings executor start from
InitIdle ==
    /\ InitWith({None})
    /\ request = [model |-> "openai/gpt-4", stream |-> None, tools |-> None,
                  messages |-> <<>>]
    /\ sinkFlaky = FALSE

\* one registered request without tools or messages, and a sink that can fail
InitSink ==
    /\ InitWith({None})
    /\ request.model = "openai/gpt-4"
    /\ request.messages = <<>>
    /\ sinkFlaky = TRUE

\* let tags = extract_tags(&req)?;
ExtractTags ==
    /\ pc = "tags"
    /\ \E ok \in BOOLEAN :
        IF ok
        THEN pc' = NextStep("tags") /\ UNCHANGED <<result, txCount>>
        ELSE Fail("TagsError")
    /\ UNCHANGED <<otherVars, sinkFailed, request, planVars, messages, rx, chan, discarded, collectorVars,
                   sink, emitterVars, executors, streamVars>>

\* a mutant of UpstreamModelName: the caller-facing name is kept
CallerFacingModelName(m) == m.model

\* llm_model.inference_provider.model_name.clone()
UpstreamModelName(m) == m.inference_provider.model_name

\* let llm_model = find_model_by_full_name(&request.model, provided_models)?;
\* request.model = llm_model.inference_provider.model_name.clone();
Resolve ==
    /\ pc = "resolve"
    /\ LET found == find_model_by_full_name(request.model, AvailableModels) IN
        IF IsSome(found)
        THEN /\ llm_model' = found
             /\ request' = [request EXCEPT !.model = UpstreamModelName(Unwrap(found))]
             /\ pc' = NextStep("resolve")
             /\ UNCHANGED <<result, txCount>>
        ELSE /\ Fail("ModelNotFound")
             /\ UNCHANGED <<llm_model, request>>
    /\ UNCHANGED <<otherVars, sinkFailed, tools, tools_map, db_model, definition, messages, rx, chan,
                   discarded, collectorVars, sink, emitterVars, executors, streamVars>>

\* let engine = Provider::get_completion_engine_for_model(..)?;
SelectEngine ==
    /\ pc = "engine"
    /\ \E ok \in BOOLEAN :
        IF ok
        THEN pc' = NextStep("engine") /\ UNCHANGED <<result, txCount>>
        ELSE Fail("CustomError:engine")
    /\ UNCHANGED <<otherVars, sinkFailed, request, planVars, messages, rx, chan, discarded, collectorVars,
                   sink, emitterVars, executors, streamVars>>

\* tools, db_model, completion_model_definition, tools_map
Build ==
    /\ pc = "build"
    /\ tools' = ModelTools(request.tools)
    /\ db_model' = Some([name |-> request.model,
                         provider_name |-> Unwrap(llm_model).inference_provider.provider,
                         tools |-> ModelTools(request.tools),
                         model_type |-> "Completions"])
    /\ definition' = Some([name |-> request.model,
                           provider_name |-> Unwrap(llm_model).model_provider,
                           tools |-> ModelTools(request.tools),
                           db_model |-> Unwrap(db_model')])
    /\ tools_map' = ToolsMap(request.tools)
    /\ pc' = NextStep("build")
    /\ UNCHANGED <<otherVars, sinkFailed, request, result, llm_model, messages, channelVars, collectorVars,
                   sink, emitterVars, executors, streamVars>>

\* let model = init_completion_model_instance(..).await
\*     .map_err(|e| GatewayApiError::CustomError(e.to_string()))?;
InitModelInstance ==
    /\ pc = "init"
    /\ \E ok \in BOOLEAN :
        IF ok
        THEN pc' = NextStep("init") /\ UNCHANGED <<result, txCount>>
        ELSE Fail("CustomError:init")
    /\ UNCHANGED <<otherVars, sinkFailed, request, planVars, messages, rx, chan, discarded, collectorVars,
                   sink, emitterVars, executors, streamVars>>

\* MessageMapper::map_completions_message_to_langdb_message(message, model, user)
MapMessage(message, model) ==
    IF message = "ok" THEN Some([content |-> message, model |-> model]) ELSE None

\* for message in &request.messages { messages.push(map(..)?); }
MapMessages ==
    /\ pc = "map"
    /\ IF Len(messages) = Len(request.messages)
       THEN /\ pc' = NextStep("map")
            /\ UNCHANGED <<messages, result, txCount>>
       ELSE LET mapped == MapMessage(request.messages[Len(messages) + 1], request.model) IN
            IF IsSome(mapped)
            THEN /\ messages' = Append(messages, Unwrap(mapped))
                 /\ UNCHANGED <<pc, result, txCount>>
            ELSE /\ Fail("MessageMappingError")
                 /\ UNCHANGED messages
    /\ UNCHANGED <<otherVars, sinkFailed, request, planVars, rx, chan, discarded, collectorVars, sink,
                   emitterVars, executors, streamVars>>

\* let (tx, mut rx) = tokio::sync::mpsc::channel::<Option<ModelEvent>>(1000);
CreateChannel ==
    /\ pc = "channel"
    /\ rx' = "alive"
    /\ txCount' = 1
    /\ chan' = <<>>
    /\ pc' = NextStep("channel")
    /\ UNCHANGED <<otherVars, sinkFailed, request, result, planVars, messages, discarded, collectorVars,
                   sink, emitterVars, executors, streamVars>>

\* let handle = tokio::spawn(async move { let mut stop_event = None; .. });
SpawnCollector ==
    /\ pc = "spawn"
    /\ collector' = "recv"
    /\ stop_event' = None
    /\ tool_calls' = None
    /\ pc' = NextStep("spawn")
    /\ UNCHANGED <<otherVars, sinkFailed, request, result, planVars, messages, channelVars, msg, ttft,
                   handle, pulled, forwarded, sink, emitterVars, executors,
                   streamVars>>

\* a mutant of TxGivenTo: the streaming executor gets the sending end too
TxGivenToBoth(arm) == TRUE

\* the arguments of the two calls: tx is moved into basic_executor::execute only
TxGivenTo(arm) == arm = "batch"

\* a mutant of HandleGivenTo: the streaming executor awaits the collector too
HandleGivenToBoth(arm) == TRUE

\* the arguments of the two calls: handle is moved into basic_executor::execute only
HandleGivenTo(arm) == arm = "batch"

\* if request.stream.unwrap_or(false) { stream_chunks(..) } else { basic_executor::execute(.., tx, .., handle) }
Branch ==
    /\ pc = "branch"
    /\ executors' = executors \cup {BranchTarget(request)}
    /\ pc' = IF BranchTarget(request) = "stream" THEN "stream_call" ELSE "invoking"
    /\ UNCHANGED <<otherVars, sinkFailed, request, result, planVars, messages, channelVars, collectorVars,
                   sink, emitterVars, streamVars>>


(***************************************************************************)
(* The channel: tokio::sync::mpsc::channel(1000), created at mod.rs:143.   *)
(***************************************************************************)
\* a mutant of CanSend: the buffer has no bound
CanSendUnbounded(c) == TRUE

\* Sender::send completes only when the buffer has a free slot
CanSend(c) == Len(c) < Capacity

\* a mutant of Dequeue: the newest message is taken first
DequeueNewest(c) == [head |-> c[Len(c)], rest |-> SubSeq(c, 1, Len(c) - 1)]

\* Receiver::recv takes the oldest buffered message
Dequeue(c) == [head |-> Head(c), rest |-> Tail(c)]

\* a mutant of RecvClosed: a closed, drained channel is never noticed
RecvClosedNever(c, n) == FALSE

\* Receiver::recv yields None when the buffer is empty and no sender is left
RecvClosed(c, n) == c = <<>> /\ n = 0

(***************************************************************************)
(* The collector task (mod.rs:146-182).                                    *)
(***************************************************************************)
ModelEventWithDetails(ev, model) == [event |-> ev, model |-> model]

\* a mutant of CollectorForward: a first-token event is recorded, not forwarded
CollectorForwardSkipsFirstToken(s, ev, model) ==
    IF ev.kind = "LlmFirstToken" THEN s ELSE Append(s, ModelEventWithDetails(ev, model))

\* ch.on_message(ModelEventWithDetails::new(msg, db_model.clone()));
CollectorForward(s, ev, model) == Append(s, ModelEventWithDetails(ev, model))

\* (stop_event, tool_calls)
CollectorResult == Some(<<stop_event, tool_calls>>)

\* a mutant of NoneEndsLoop: a None message is skipped and the loop goes on
NoneIsSkipped == FALSE

\* `while let Some(Some(msg))`: the pattern fails on Some(None) as on None
NoneEndsLoop == TRUE

\* if let LlmStop(e) = &msg { stop_event = Some(e.clone()); }
StopEventAfter(stop, ev) == IF ev.kind = "LlmStop" THEN Some(Payload(ev)) ELSE stop

\* a mutant of ToolCallsAfter: the list is reset at every tool start
ToolCallsAfterReset(calls, ev) ==
    IF ev.kind = "ToolStart" THEN Some(<<Payload(ev)>>) ELSE calls

\* if let ToolStart(e) = &msg { if tool_calls.is_none() { tool_calls = Some(vec![]); }
\*                              tool_calls.as_mut().unwrap().push(e.clone()); }
ToolCallsAfter(calls, ev) ==
    IF ev.kind = "ToolStart"
    THEN Some(Append(IF calls = None THEN <<>> ELSE Unwrap(calls), Payload(ev)))
    ELSE calls

\* the outcomes a call of the callback sink can have
SinkOutcomes == IF sinkFlaky THEN BOOLEAN ELSE {TRUE}

\* a mutant of AfterOnMessage: a failed delivery ends the collector
AfterOnMessageStopsOnFailure(ok) == IF ok THEN "recv" ELSE "done"

\* ch.on_message(..); -- a statement: whatever the sink does, the loop goes on
AfterOnMessage(ok) == "recv"

\* while let Some(Some(msg)) = rx.recv().await
CollectorRecv ==
    /\ collector = "recv"
    /\ IF chan # <<>>
       THEN LET d == Dequeue(chan) IN
            IF IsSome(d.head)
            THEN /\ msg' = d.head
                 /\ pulled' = Append(pulled, Unwrap(d.head))
                 /\ chan' = d.rest
                 /\ collector' = "process"
                 /\ UNCHANGED <<handle, rx, discarded>>
            ELSE IF NoneEndsLoop
            THEN \* Some(None): the pattern does not match and the loop ends
                 /\ collector' = "done"
                 /\ handle' = CollectorResult
                 /\ rx' = "dropped"
                 /\ discarded' = d.rest
                 /\ chan' = <<>>
                 /\ UNCHANGED <<msg, pulled>>
            ELSE /\ chan' = d.rest
                 /\ UNCHANGED <<msg, pulled, collector, handle, rx, discarded>>
       ELSE \* None: every sender is gone
            /\ RecvClosed(chan, txCount)
            /\ collector' = "done"
            /\ handle' = CollectorResult
            /\ rx' = "dropped"
            /\ UNCHANGED <<msg, pulled, chan, discarded>>
    /\ UNCHANGED <<otherVars, sinkFailed, request, pc, result, planVars, messages, txCount, stop_event,
                   tool_calls, ttft, forwarded, sink, emitterVars, executors,
                   streamVars>>

\* the body of the loop: the three `if let` and the call of the callback
CollectorProcess ==
    /\ collector = "process"
    /\ LET ev == Unwrap(msg) IN
        /\ stop_event' = StopEventAfter(stop_event, ev)
        /\ tool_calls' = ToolCallsAfter(tool_calls, ev)
        /\ ttft' = IF ev.kind = "LlmFirstToken" THEN Some(ev.id) ELSE ttft
        /\ sink' = CollectorForward(sink, ev, Unwrap(db_model))
        /\ forwarded' = forwarded \o [i \in 1..(Len(sink') - Len(sink)) |->
                                        sink'[Len(sink) + i].event]
        /\ \E ok \in SinkOutcomes :
            /\ sinkFailed' = IF ok THEN sinkFailed ELSE sinkFailed \cup {ev.id}
            /\ collector' = AfterOnMessage(ok)
    /\ msg' = None
    /\ UNCHANGED <<otherVars, request, pc, result, planVars, messages, channelVars, handle,
                   pulled, emitterVars, executors, streamVars>>

(***************************************************************************)
(* The batch executor, basic_executor::execute(request, model, messages,   *)
(* tags, tx, span, handle): it owns the sending end and the JoinHandle.    *)
(***************************************************************************)
\* the model instance hands a message to the sending end
BatchEmit(m) ==
    /\ pc = "invoking"
    /\ TxGivenTo("batch")
    /\ pending = None
    /\ Len(emitted) < MaxEvents
    /\ pending' = Some(m)
    /\ emitted' = Append(emitted, m)
    /\ UNCHANGED <<otherVars, sinkFailed, request, pc, result, planVars, messages, channelVars,
                   collectorVars, sink, sent, upstream, executors, streamVars>>

\* tx.send(m).await completes: the message is buffered
SendComplete ==
    /\ pending # None
    /\ rx = "alive"
    /\ CanSend(chan)
    /\ chan' = Append(chan, Unwrap(pending))
    /\ sent' = Append(sent, Unwrap(pending))
    /\ pending' = None
    /\ UNCHANGED <<otherVars, sinkFailed, request, pc, result, planVars, messages, rx, txCount, discarded,
                   collectorVars, sink, emitted, upstream, executors, streamVars>>

\* tx.send(m).await fails: the receiving end is gone
SendFail ==
    /\ pending # None
    /\ rx = "dropped"
    /\ pending' = None
    /\ UNCHANGED <<otherVars, sinkFailed, request, pc, result, planVars, messages, channelVars,
                   collectorVars, sink, emitted, sent, upstream, executors,
                   streamVars>>

\* the invocation of the model instance ends; the sending end is dropped
ModelComplete ==
    /\ pc = "invoking"
    /\ pending = None
    /\ txCount' = DropTx(txCount)
    /\ \E ok \in BOOLEAN :
        IF ok
        THEN /\ upstream' = "ok"
             /\ pc' = "await"
             /\ UNCHANGED result
        ELSE /\ upstream' = "failed"
             /\ result' = RightResult("UpstreamError", None)
             /\ pc' = "done"
    /\ UNCHANGED <<otherVars, sinkFailed, request, planVars, messages, rx, chan, discarded, collectorVars,
                   sink, emitted, sent, pending, executors, streamVars>>

\* handle.await, then the aggregated response
BatchAwait ==
    /\ pc = "await"
    /\ HandleGivenTo("batch")
    /\ handle # None
    /\ result' = RightResult("", Some([model |-> request.model,
                                        stop_reason |-> Unwrap(handle)[1],
                                        tool_calls |-> Unwrap(handle)[2]]))
    /\ pc' = "done"
    /\ UNCHANGED <<otherVars, sinkFailed, request, planVars, messages, channelVars, collectorVars, sink,
                   emitterVars, executors, streamVars>>

(***************************************************************************)
(* The streaming executor, stream_chunks(definition, model, vec![],        *)
(* messages, callback_handler, tags): it gets the callback sink, not the   *)
(* sending end.                                                            *)
(***************************************************************************)
\* stream_chunks(..).await returns; execute returns and drops what it still owns
StreamChunksReturn ==
    /\ pc = "stream_call"
    /\ HandleGivenTo("stream") => handle # None
    /\ txCount' = IF TxGivenTo("stream") THEN txCount ELSE DropTx(txCount)
    /\ pc' = "done"
    /\ \E ok \in BOOLEAN :
        IF ok
        THEN result' = LeftResult("") /\ streamState' = "open"
        ELSE result' = LeftResult("UpstreamError") /\ streamState' = "failed"
    /\ UNCHANGED <<otherVars, sinkFailed, request, planVars, messages, rx, chan,
                   discarded, collectorVars, sink, emitterVars, executors, items>>

\* the model instance emits an event while stream_chunks runs or the stream is
\* consumed; the streaming executor hands it to the callback sink it was
\* given, having no sending end of the channel
StreamEmit(k) ==
    /\ pc = "stream_call" \/ streamState = "open"
    /\ Len(emitted) < MaxEvents
    /\ LET ev == ModelEvent(k, Len(emitted) + 1) IN
        /\ emitted' = Append(emitted, Some(ev))
        /\ IF TxGivenTo("stream")
           THEN /\ rx = "alive"
                /\ CanSend(chan)
                /\ chan' = Append(chan, Some(ev))
                /\ sent' = Append(sent, Some(ev))
                /\ UNCHANGED <<sink, sinkFailed>>
           ELSE /\ sink' = Append(sink, ModelEventWithDetails(ev, Unwrap(definition).db_model))
                /\ \E ok \in SinkOutcomes :
                    sinkFailed' = IF ok THEN sinkFailed ELSE sinkFailed \cup {ev.id}
                /\ UNCHANGED <<chan, sent>>
    /\ UNCHANGED <<otherVars, request, pc, result, planVars, messages, rx, txCount,
                   discarded, collectorVars, pending, upstream, executors, streamVars>>

\* one provider chunk becomes one item of the stream
StreamChunk ==
    /\ streamState = "open"
    /\ items < MaxChunks
    /\ HandleGivenTo("stream") => handle # None
    /\ items' = items + 1
    /\ UNCHANGED <<otherVars, sinkFailed, request, pc, result, planVars, messages,
                   channelVars, collectorVars, sink, emitterVars, executors,
                   streamState>>

\* the stream ends, or a chunk error terminates it
StreamEnd ==
    /\ streamState = "open"
    /\ \E ok \in BOOLEAN :
        /\ streamState' = IF ok THEN "ended" ELSE "failed"
        /\ upstream' = IF ok THEN "ok" ELSE "failed"
    /\ txCount' = IF TxGivenTo("stream") THEN DropTx(txCount) ELSE txCount
    /\ UNCHANGED <<otherVars, sinkFailed, request, pc, result, planVars, messages, rx,
                   chan, discarded, collectorVars, sink, emitted, sent, pending,
                   executors, items>>

(***************************************************************************)
(* Two concurrent calls of execute on the batch arm.                       *)
(***************************************************************************)
\* live sending ends of channel c
SendersOf(c) == Cardinality({r \in Requests : ChannelOf(r) = c /\ multi.tx[r] = 1})

\* mod.rs:143-146: the channel and the collector of request r
TwoCreateAndSpawn(r) ==
    /\ multi.collector[r] = "none"
    /\ multi' = [multi EXCEPT !.rx[ChannelOf(r)] = "alive",
                              !.tx[r] = 1,
                              !.collector[r] = "recv"]
    /\ UNCHANGED <<chatVars, embed>>

\* the model instance of request r completes a send on the sender it was given
TwoSend(r, m) ==
    LET c == ChannelOf(r) IN
    /\ multi.tx[r] = 1
    /\ multi.rx[c] = "alive"
    /\ CanSend(multi.chan[c])
    /\ multi' = [multi EXCEPT !.chan[c] = Append(@, m), !.sent[r] = Append(@, m)]
    /\ UNCHANGED <<chatVars, embed>>

\* the batch executor of request r is done with the model: its sender is dropped
TwoDropTx(r) ==
    /\ multi.tx[r] = 1
    /\ multi' = [multi EXCEPT !.tx[r] = DropTx(@)]
    /\ UNCHANGED <<chatVars, embed>>

\* rx.recv().await of the collector of request r (mod.rs:149)
TwoCollectorRecv(r) ==
    LET c == ChannelOf(r) IN
    /\ multi.collector[r] = "recv"
    /\ IF multi.chan[c] # <<>>
       THEN LET d == Dequeue(multi.chan[c]) IN
            IF IsSome(d.head)
            THEN multi' = [multi EXCEPT !.chan[c] = d.rest,
                                        !.msg[r] = d.head,
                                        !.pulled[r] = Append(@, Unwrap(d.head)),
                                        !.collector[r] = "process"]
            ELSE IF NoneEndsLoop
            THEN multi' = [multi EXCEPT !.chan[c] = <<>>,
                                        !.rx[c] = "dropped",
                                        !.collector[r] = "done"]
            ELSE multi' = [multi EXCEPT !.chan[c] = d.rest]
       ELSE /\ RecvClosed(multi.chan[c], SendersOf(c))
            /\ multi' = [multi EXCEPT !.rx[c] = "dropped", !.collector[r] = "done"]
    /\ UNCHANGED <<chatVars, embed>>

\* the loop body of the collector of request r: the event goes to the sink
\* with the db_model the task captured (mod.rs:178)
TwoCollectorProcess(r) ==
    /\ multi.collector[r] = "process"
    /\ multi' = [multi EXCEPT
                    !.sink = CollectorForward(@, Unwrap(multi.msg[r]), DbModelOf(r)),
                    !.msg[r] = None,
                    !.collector[r] = AfterOnMessage(TRUE)]
    /\ UNCHANGED <<chatVars, embed>>

(***************************************************************************)
(* handle_embeddings_invoke (embeddings.rs:20-75).                         *)
(***************************************************************************)
\* request.model = ..; the params; the input; model_name (embeddings.rs:27-41)
EmbedSetup ==
    /\ embed.pc = "setup"
    /\ embed' = [embed EXCEPT !.request_model = "text-embedding-3-small",
                              !.model_name = "openai/text-embedding-3-small",
                              !.pc = EmbedNextStep("setup")]
    /\ UNCHANGED <<chatVars, multi>>

\* let (tx, mut rx) = tokio::sync::mpsc::channel::<Option<ModelEvent>>(1000);
EmbedCreateChannel ==
    /\ embed.pc = "channel"
    /\ embed' = [embed EXCEPT !.rx = "alive", !.tx = 1, !.pc = EmbedNextStep("channel")]
    /\ UNCHANGED <<chatVars, multi>>

\* tokio::spawn(async move { .. }); the JoinHandle is not kept
EmbedSpawn ==
    /\ embed.pc = "spawn"
    /\ embed' = [embed EXCEPT !.collector = "recv", !.pc = EmbedNextStep("spawn")]
    /\ UNCHANGED <<chatVars, multi>>

\* let embed = OpenAIEmbed::new(params, api_key_credentials)?;
EmbedNew ==
    /\ embed.pc = "new"
    /\ \E ok \in BOOLEAN :
        embed' = IF ok
                 THEN [embed EXCEPT !.pc = EmbedNextStep("new")]
                 ELSE [embed EXCEPT !.pc = "done", !.result = "Err:new",
                                    !.tx = SendersAfterReturn(@)]
    /\ UNCHANGED <<chatVars, multi>>

\* embed.invoke(input, Some(tx.clone())): the call, with a clone of the sender
EmbedInvoke ==
    /\ embed.pc = "invoke"
    /\ embed' = [embed EXCEPT !.pc = "invoking", !.tx = @ + 1]
    /\ UNCHANGED <<chatVars, multi>>

\* invoke hands a message to its sender; a send into a full channel waits, one
\* after the receiver is dropped fails
EmbedEmit(m) ==
    /\ embed.pc = "invoking"
    /\ embed.rx # "none"
    /\ Len(embed.emitted) < MaxEvents
    /\ embed.rx = "alive" => CanSend(embed.chan)
    /\ embed' = [embed EXCEPT
                    !.emitted = Append(@, m),
                    !.chan = IF embed.rx = "alive" THEN Append(@, m) ELSE @]
    /\ UNCHANGED <<chatVars, multi>>

\* invoke returns Ok or Err and the function returns its result
EmbedReturn ==
    /\ embed.pc = "invoking"
    /\ \E ok \in BOOLEAN :
        embed' = [embed EXCEPT !.pc = "done",
                               !.result = IF ok THEN "Ok" ELSE "Err:invoke",
                               !.tx = SendersAfterReturn(@)]
    /\ UNCHANGED <<chatVars, multi>>

\* rx.recv().await of the detached task (embeddings.rs:44)
EmbedCollectorRecv ==
    /\ embed.collector = "recv"
    /\ IF embed.chan # <<>>
       THEN LET d == Dequeue(embed.chan) IN
            IF IsSome(d.head)
            THEN embed' = [embed EXCEPT !.chan = d.rest, !.msg = d.head,
                                        !.collector = "process"]
            ELSE IF NoneEndsLoop
            THEN embed' = [embed EXCEPT !.chan = <<>>, !.rx = "dropped",
                                        !.collector = "done"]
            ELSE embed' = [embed EXCEPT !.chan = d.rest]
       ELSE /\ RecvClosed(embed.chan, embed.tx)
            /\ embed' = [embed EXCEPT !.rx = "dropped", !.collector = "done"]
    /\ UNCHANGED <<chatVars, multi>>

\* callback_handler.on_message(ModelEventWithDetails::new(msg, Model { .. }))
EmbedCollectorProcess ==
    /\ embed.collector = "process"
    /\ embed' = [embed EXCEPT
                    !.sink = CollectorForward(@, Unwrap(embed.msg),
                                              EmbeddingModel(embed.model_name)),
                    !.msg = None,
                    !.collector = AfterOnMessage(TRUE)]
    /\ UNCHANGED <<chatVars, multi>>

(***************************************************************************)
(* Specifications.                                                         *)
(***************************************************************************)
Next ==
    \/ ExtractTags
    \/ Resolve
    \/ SelectEngine
    \/ Build
    \/ InitModelInstance
    \/ MapMessages
    \/ CreateChannel
    \/ SpawnCollector
    \/ Branch
    \/ CollectorRecv
    \/ CollectorProcess
    \/ \E m \in ChannelMessages(Len(emitted) + 1) : BatchEmit(m)
    \/ SendComplete
    \/ SendFail
    \/ ModelComplete
    \/ BatchAwait
    \/ StreamChunksReturn
    \/ \E k \in EventKinds : StreamEmit(k)
    \/ StreamChunk
    \/ StreamEnd

Spec == Init /\ [][Next]_vars

\* a spawned task is polled whenever it can make progress
FairSpec == Spec /\ WF_vars(CollectorRecv) /\ WF_vars(CollectorProcess)

\* the same executor with a callback sink whose deliveries can fail
SpecSink == InitSink /\ [][Next]_vars

\* two concurrent requests
NextTwo ==
    \E r \in Requests :
        \/ TwoCreateAndSpawn(r)
        \/ \E m \in MessagesOf(r, Len(multi.sent[r]) + 1) :
              Len(multi.sent[r]) < MaxEventsEach /\ TwoSend(r, m)
        \/ TwoDropTx(r)
        \/ TwoCollectorRecv(r)
        \/ TwoCollectorProcess(r)

SpecTwo == InitIdle /\ [][NextTwo]_vars

\* the embeddings executor
NextEmbed ==
    \/ EmbedSetup
    \/ EmbedCreateChannel
    \/ EmbedSpawn
    \/ EmbedNew
    \/ EmbedInvoke
    \/ \E m \in ChannelMessages(Len(embed.emitted) + 1) : EmbedEmit(m)
    \/ EmbedReturn
    \/ EmbedCollectorRecv
    \/ EmbedCollectorProcess

SpecEmbed == InitIdle /\ [][NextEmbed]_vars

\* the detached task is polled whenever it can make progress
FairSpecEmbed ==
    SpecEmbed /\ WF_vars(EmbedCollectorRecv) /\ WF_vars(EmbedCollectorProcess)

\* the construction of the tool descriptors and of the tool-capability mapping
NextTools == ExtractTags \/ Resolve \/ SelectEngine \/ Build

SpecTools == InitTools /\ [][NextTools]_vars


(***************************************************************************)
(* Vocabulary of the properties.                                           *)
(***************************************************************************)
IsPrefix(a, b) == Len(a) <= Len(b) /\ a = SubSeq(b, 1, Len(a))

\* the events of the callback sink's deliveries, in delivery order
EventsOf(deliveries) == [i \in 1..Len(deliveries) |-> deliveries[i].event]

\* the events of a sequence of channel messages, the None messages left out
SomeEvents(msgs) ==
    LET some == SelectSeq(msgs, IsSome) IN [i \in 1..Len(some) |-> Unwrap(some[i])]

\* position of the first None message; Len + 1 when there is none
FirstNone(msgs) ==
    IF \E i \in 1..Len(msgs) : msgs[i] = None
    THEN CHOOSE i \in 1..Len(msgs) :
            msgs[i] = None /\ \A j \in 1..(i - 1) : msgs[j] # None
    ELSE Len(msgs) + 1

\* the events handed out before the first None message
EventsBeforeFirstNone(msgs) == SomeEvents(SubSeq(msgs, 1, FirstNone(msgs) - 1))

IsToolStart(ev) == ev.kind = "ToolStart"

\* the tool declarations of the request, in declaration order
Declared == IF request.tools = None THEN <<>> ELSE Unwrap(request.tools)

HasResponse(r) == r.response # None
HasError(r) == r.err # ""

\* execute has passed the branch on the stream flag
ReachedBranch ==
    pc \in {"stream_call", "invoking", "await"} \/ (pc = "done" /\ result.outer = "Ok")

C2_ForwardedPrefixOfPulled ==
    /\ IsPrefix(forwarded, pulled)
    /\ collector = "process" =>
          /\ Len(pulled) = Len(forwarded) + 1
          /\ msg = Some(pulled[Len(pulled)])
    /\ collector # "process" => forwarded = pulled
    /\ "stream" \notin executors => EventsOf(sink) = forwarded
    /\ \A i, j \in 1..Len(forwarded) : forwarded[i] = forwarded[j] => i = j

\* three events, a first-token and a pass-through among them, have been
\* pulled and forwarded
C2_Witness ==
    /\ Len(forwarded) = 3
    /\ \E i \in 1..3 : forwarded[i].kind = "LlmFirstToken"
    /\ \E i \in 1..3 : forwarded[i].kind = "Other"

(***************************************************************************)
(* C3.  When execute fails in model resolution, engine selection or        *)
(* model-instance construction, no channel has been created and no         *)
(* collector task spawned for the request.                                 *)
(***************************************************************************)
C3_NoChannelOnEarlyError ==
    (result.outer = "Err"
        /\ result.err \in {"ModelNotFound", "CustomError:engine", "CustomError:init"})
    => (rx = "none" /\ txCount = 0 /\ collector = "none" /\ chan = <<>>)

\* the latest of the three failures: the model instance could not be built
C3_Witness == pc = "done" /\ result = ErrResult("CustomError:init")

(***************************************************************************)
(* C4.  The step that starts an executor is taken from a state in which    *)
(* the channel exists and the collector task has been spawned.             *)
(***************************************************************************)
C4_ChannelAndCollectorBeforeExecutor ==
    [][executors' # executors => (rx # "none" /\ txCount > 0 /\ collector # "none")]_vars

\* the batch executor runs the model instance
C4_Witness == executors = {"batch"} /\ pc = "invoking" /\ collector = "recv"

(***************************************************************************)
(* C5.  A request that reaches the branch has exactly one executor         *)
(* invoked: the streaming one iff its stream flag is present and true, the *)
(* batch one when the flag is false or absent; before the branch none is.  *)
(***************************************************************************)
C5_ExactlyOneExecutor ==
    IF ReachedBranch
    THEN /\ Cardinality(executors) = 1
         /\ "stream" \in executors <=> request.stream = Some(TRUE)
         /\ "batch" \in executors <=> request.stream \in {None, Some(FALSE)}
    ELSE executors = {}

\* a request without a stream flag has been given to the batch executor
C5_Witness == request.stream = None /\ executors = {"batch"} /\ pc = "done"

C7_OneResponseOrOneError ==
    request.stream # Some(TRUE) =>
        /\ pc # "done" => result = NoResult
        /\ pc = "done" => (HasResponse(result) # HasError(result))
        /\ result.side # "Left"
        /\ HasResponse(result) =>
              /\ upstream = "ok"
              /\ collector = "done"
              /\ Unwrap(result.response).stop_reason = stop_event
              /\ Unwrap(result.response).tool_calls = tool_calls
        /\ (upstream = "failed" /\ pc = "done") =>
              result = RightResult("UpstreamError", None)

\* the invocation failed after the model instance had emitted events
C7_Witness ==
    /\ request.stream = Some(FALSE)
    /\ pc = "done"
    /\ upstream = "failed"
    /\ Len(sent) >= 2

(***************************************************************************)
(* C8.  As claimed: for a streaming request that declares the tool         *)
(* "lookup" and whose model instance has emitted one ToolStart event for   *)
(* "lookup", the collector terminates with a tool-call list holding        *)
(* exactly that event's payload.                                           *)
(***************************************************************************)
C8_CollectorRecordsToolStart ==
    [][(/\ request.stream = Some(TRUE)
        /\ Declared = <<[name |-> "lookup", description |-> "d1"]>>
        /\ Len(SelectSeq(SomeEvents(emitted), IsToolStart)) = 1
        /\ collector # "done"
        /\ collector' = "done")
        => tool_calls' =
              Some(<<Payload(SelectSeq(SomeEvents(emitted), IsToolStart)[1])>>)]_vars

(***************************************************************************)
(* C9.  The channel never holds more than its capacity; while it is full a *)
(* send does not complete, and no message handed to a live channel is      *)
(* lost: it is waiting to be sent, buffered, or pulled.                    *)
(***************************************************************************)
C9_BoundedChannelBlocksSender ==
    /\ [](Len(chan) <= Capacity)
    /\ [](rx = "alive" =>
            /\ "stream" \notin executors => emitted = sent \o pending
            /\ SomeEvents(sent) = pulled \o SomeEvents(chan))
    /\ [][(Len(chan) >= Capacity /\ pending # None)
            => (pending' = pending /\ sent' = sent)]_vars

\* the channel is full and the model instance waits in a send
C9_Witness == rx = "alive" /\ Len(chan) = Capacity /\ pending # None

(***************************************************************************)
(* C10.  The tool-capability mapping has one entry per distinct declared   *)
(* name, the last declaration of that name; the descriptor list of the     *)
(* model metadata has one descriptor per declaration, in declaration       *)
(* order.                                                                  *)
(***************************************************************************)
C10_LastDeclarationWins ==
    db_model # None =>
        /\ DOMAIN tools_map = {Declared[i].name : i \in 1..Len(Declared)}
        /\ \A i \in 1..Len(Declared) :
              (\A j \in (i + 1)..Len(Declared) : Declared[j].name # Declared[i].name)
              => tools_map[Declared[i].name] = [def |-> Declared[i]]
        /\ Len(tools) = Len(Declared)
        /\ \A i \in 1..Len(Declared) :
              tools[i] = [name |-> Declared[i].name,
                          description |-> Declared[i].description,
                          passed_args |-> <<>>]
        /\ Unwrap(db_model).tools = tools
        /\ Unwrap(definition).tools = tools

\* a name declared twice with different descriptions, another name between
C10_Witness ==
    /\ db_model # None
    /\ Len(Declared) = 3
    /\ Declared[1].name = Declared[3].name
    /\ Declared[1] # Declared[3]
    /\ Declared[2].name # Declared[1].name


(***************************************************************************)
(* Vocabulary of the properties about names, messages and the collector's  *)
(* result.                                                                 *)
(***************************************************************************)
IsLlmStop(ev) == ev.kind = "LlmStop"

\* payload of the last LlmStop of a sequence of events, None without one
LastStop(evs) ==
    LET stops == SelectSeq(evs, IsLlmStop) IN
    IF stops = <<>> THEN None ELSE Some(Payload(stops[Len(stops)]))

\* payloads of the ToolStart events of a sequence, None without one
ToolStartPayloads(evs) ==
    LET starts == SelectSeq(evs, IsToolStart) IN
    IF starts = <<>> THEN None ELSE Some([i \in 1..Len(starts) |-> Payload(starts[i])])

\* position of the first message of the request that does not map; 0 without one
FirstBad ==
    IF \E i \in 1..Len(request.messages) : request.messages[i] = "bad"
    THEN CHOOSE i \in 1..Len(request.messages) :
            /\ request.messages[i] = "bad"
            /\ \A j \in 1..(i - 1) : request.messages[j] # "bad"
    ELSE 0

(***************************************************************************)
(* C11.  Once the model is resolved, the request, the execution plan, the  *)
(* model metadata (also as paired with every delivered event), every       *)
(* mapped message and the aggregated response carry the binding's upstream *)
(* model name, which differs from the caller-facing one.                   *)
(***************************************************************************)
C11_UpstreamNameEverywhere ==
    llm_model # None =>
        LET up == Unwrap(llm_model).inference_provider.model_name IN
        /\ request.model = up
        /\ db_model # None =>
              /\ Unwrap(db_model).name = up
              /\ Unwrap(definition).name = up
              /\ Unwrap(definition).db_model.name = up
        /\ \A i \in 1..Len(messages) : messages[i].model = up
        /\ \A i \in 1..Len(sink) : sink[i].model.name = up
        /\ HasResponse(result) => Unwrap(result.response).model = up

\* a batch request with a mapped message and a delivered event has ended, and
\* the caller-facing name is not the upstream name
C11_Witness ==
    /\ pc = "done"
    /\ HasResponse(result)
    /\ messages # <<>>
    /\ sink # <<>>
    /\ Unwrap(llm_model).model # Unwrap(llm_model).inference_provider.model_name

(***************************************************************************)
(* C12.  With a callback sink whose deliveries can fail, the collector     *)
(* still pulls and forwards every event up to the first None, terminates   *)
(* with its pair, and the result of the request is an error only of the    *)
(* request path, or the response computed from the events.                 *)
(***************************************************************************)
C12_SinkFailureIsSwallowed ==
    /\ collector # "process" => forwarded = pulled
    /\ \A id \in sinkFailed : \E i \in 1..Len(sink) : sink[i].event.id = id
    /\ collector = "done" =>
          /\ handle = Some(<<stop_event, tool_calls>>)
          /\ forwarded = EventsBeforeFirstNone(sent)
    /\ HasResponse(result) =>
          /\ Unwrap(result.response).stop_reason = LastStop(EventsBeforeFirstNone(sent))
          /\ Unwrap(result.response).tool_calls =
                ToolStartPayloads(EventsBeforeFirstNone(sent))
    /\ result.err \in {"", "TagsError", "CustomError:engine", "CustomError:init",
                       "UpstreamError"}
    /\ result.err = "UpstreamError" => upstream = "failed" \/ result.side = "Left"

\* the delivery of the first event failed; two more events were forwarded and
\* the request got its response
C12_Witness ==
    /\ pc = "done"
    /\ HasResponse(result)
    /\ 1 \in sinkFailed
    /\ Len(forwarded) = 3
    /\ Unwrap(result.response).stop_reason # None

(***************************************************************************)
(* C13.  On the streaming path the return of execute and every item of the *)
(* stream are possible whatever the collector is doing; only the batch     *)
(* path waits for the collector's result.                                  *)
(***************************************************************************)
C13_OnlyBatchAwaitsCollector ==
    /\ pc = "stream_call" => ENABLED StreamChunksReturn
    /\ (streamState = "open" /\ items < MaxChunks) => ENABLED StreamChunk
    /\ pc = "await" => (ENABLED BatchAwait <=> collector = "done")
    /\ HasResponse(result) => collector = "done"

\* the stream was returned and all its items produced while the collector is
\* still waiting on the channel
C13_Witness ==
    /\ result = LeftResult("")
    /\ items = MaxChunks
    /\ collector = "recv"

(***************************************************************************)
(* C14.  The pair of the collector: tool_calls are the payloads of the     *)
(* ToolStart events received, in receipt order, None without one and never *)
(* an empty list; stop_reason is the payload of the last LlmStop received, *)
(* None without one.                                                       *)
(***************************************************************************)
C14_CollectorPair ==
    LET done == IF collector = "process" THEN SubSeq(pulled, 1, Len(pulled) - 1)
                ELSE pulled IN
    /\ stop_event = LastStop(done)
    /\ tool_calls = ToolStartPayloads(done)
    /\ tool_calls # Some(<<>>)
    /\ collector = "done" => handle = Some(<<LastStop(pulled), ToolStartPayloads(pulled)>>)

\* two tool starts and a pass-through event were received
C14_Witness ==
    /\ collector = "done"
    /\ Len(pulled) = 3
    /\ Len(SelectSeq(pulled, IsToolStart)) = 2
    /\ \E i \in 1..3 : pulled[i].kind = "Other"
    /\ stop_event = None

(***************************************************************************)
(* C16.  The mapped messages are, in order, the mapped images of a prefix  *)
(* of the request's messages, the whole list once the channel exists; at   *)
(* the first message that does not map execute leaves the loop with the    *)
(* mapping error, nothing later is mapped, no executor is invoked and no   *)
(* channel or collector exists.                                            *)
(***************************************************************************)
C16_MessagesMappedOneToOne ==
    /\ [](/\ Len(messages) <= Len(request.messages)
          /\ \A i \in 1..Len(messages) : messages[i].content = request.messages[i]
          /\ (rx # "none" \/ executors # {}) => Len(messages) = Len(request.messages)
          /\ FirstBad # 0 =>
                /\ Len(messages) < FirstBad
                /\ executors = {}
                /\ rx = "none"
                /\ collector = "none"
          /\ result.err = "MessageMappingError" =>
                /\ result.outer = "Err"
                /\ FirstBad # 0
                /\ Len(messages) = FirstBad - 1)
    /\ [][(pc = "map" /\ FirstBad # 0 /\ Len(messages) = FirstBad - 1 /\ pc' # pc)
            => (pc' = "done" /\ result' = ErrResult("MessageMappingError")
                /\ messages' = messages)]_vars

\* the second of three messages failed to map
C16_Witness ==
    /\ request.messages = <<"ok", "bad", "ok">>
    /\ result = ErrResult("MessageMappingError")
    /\ Len(messages) = 1

(***************************************************************************)
(* C17.  The collector stops at the first None message it pulls, whether   *)
(* or not a sender is left, with the pair accumulated so far; afterwards   *)
(* nothing is forwarded or counted, so no event sent after that None is.   *)
(***************************************************************************)
C17_CollectorStopsAtFirstNone ==
    /\ [][(collector = "recv" /\ chan # <<>> /\ Head(chan) = None
            /\ Len(chan') < Len(chan))
            => (collector' = "done" /\ rx' = "dropped"
                /\ handle' = Some(<<stop_event, tool_calls>>))]_vars
    /\ [][collector = "done"
            => (/\ UNCHANGED <<collector, forwarded, pulled, stop_event, tool_calls, handle>>
                /\ "batch" \in executors => sink' = sink)]_vars
    /\ [](collector = "done" =>
            \A i \in 1..Len(forwarded) : forwarded[i].id < FirstNone(emitted))

\* the collector stopped at a None after one event; the sender is still live
\* and its next event was lost
C17_Witness ==
    /\ collector = "done"
    /\ txCount = 1
    /\ Len(emitted) = 3
    /\ emitted[1] # None
    /\ emitted[2] = None
    /\ emitted[3] # None
    /\ pending = None
    /\ Len(forwarded) = 1

(***************************************************************************)
(* C18.  On the streaming path nothing is ever sent on the channel: the    *)
(* sending end stays with execute until it returns and is dropped then;    *)
(* the collector pulls and forwards nothing and eventually terminates with *)
(* (None, None).                                                           *)
(***************************************************************************)
C18_StreamingCollectorGetsNothing ==
    /\ []("stream" \in executors =>
            /\ sent = <<>>
            /\ chan = <<>>
            /\ pending = None
            /\ pulled = <<>>
            /\ forwarded = <<>>
            /\ txCount = IF pc = "done" THEN 0 ELSE 1
            /\ collector = "done" => (pc = "done" /\ handle = Some(<<None, None>>)))
    /\ ("stream" \in executors /\ pc = "done") ~> (collector = "done")

\* the model instance emitted a tool start and another event while streaming;
\* both reached the sink, and the collector ended with (None, None)
C18_Witness ==
    /\ "stream" \in executors
    /\ collector = "done"
    /\ handle = Some(<<None, None>>)
    /\ Len(sink) >= 2
    /\ \E i \in 1..Len(sink) : sink[i].event.kind = "ToolStart"

(***************************************************************************)
(* C15.  Two concurrent requests: every delivery to the callback sink      *)
(* pairs an event with the metadata of the request that emitted it, a      *)
(* collector pulls only events of its own request, and the deliveries of   *)
(* one request are, in order, the events it sent ahead of its first None.  *)
(***************************************************************************)
DeliveriesOf(r) ==
    LET IsMine(d) == Origin(d.event) = r IN EventsOf(SelectSeq(multi.sink, IsMine))

C15_RequestsDoNotMix ==
    /\ \A i \in 1..Len(multi.sink) :
          multi.sink[i].model = DbModelOf(Origin(multi.sink[i].event))
    /\ \A r \in Requests :
          /\ \A i \in 1..Len(multi.pulled[r]) : Origin(multi.pulled[r][i]) = r
          /\ IsPrefix(multi.pulled[r], EventsBeforeFirstNone(multi.sent[r]))
          /\ DeliveriesOf(r) =
                IF multi.collector[r] = "process"
                THEN SubSeq(multi.pulled[r], 1, Len(multi.pulled[r]) - 1)
                ELSE multi.pulled[r]

\* the deliveries of the two requests alternate in the sink
C15_Witness ==
    /\ Len(multi.sink) = 4
    /\ \A i \in 1..4 : Origin(multi.sink[i].event) = IF i % 2 = 1 THEN 1 ELSE 2
    /\ DbModelOf(1) # DbModelOf(2)

====
